---- MODULE Spec2Model ----
(***************************************************************************)
(* A model of turnkey-netinfo (src/netinfo/__init__.py): the interface     *)
(* enumerator get_ifnames, the flag registry InterfaceInfo.FLAGS and the   *)
(* per-interface query engine InterfaceInfo.                               *)
(*                                                                         *)
(* Text is modelled as sequences of one-character strings, so that         *)
(* splitting, stripping, slicing and pattern matching are computed.        *)
(***************************************************************************)
EXTENDS Integers, Sequences, FiniteSets, TLC

VARIABLES
    devtable,   \* /proc/net/dev: the kernel's device table, a sequence of lines
    handles,    \* the ifname of every constructed InterfaceInfo
    sockfd,     \* InterfaceInfo._sockfd: 0 is None, n > 0 the n-th socket object
    nsock,      \* how many sockets socket.socket() has created
    usedfds,    \* the descriptors fcntl.ioctl has been issued on
    pc,         \* each thread's position in the call it is running
    call,       \* each thread's current call: its request and, once done, its result
    bigendian,  \* the platform's byte order (struct's native "H")
    routes      \* the routing table, as the lines "route -n" prints

vars == <<devtable, handles, sockfd, nsock, usedfds, pc, call, bigendian, routes>>

----------------------------------------------------------------------------
(* Bounds of the model *)

MaxLines == 3       \* lines of the device table
MaxRows == 2        \* lines of a route dump
NThreads == 2       \* threads calling into the library

----------------------------------------------------------------------------
(* Text *)

Range(s) == {s[i] : i \in 1..Len(s)}

\* str.isspace for the characters that occur
IsSpace(c) == c \in {" ", "\t", "\n"}

RECURSIVE LStrip(_)
LStrip(s) == IF s # <<>> /\ IsSpace(Head(s)) THEN LStrip(Tail(s)) ELSE s

RECURSIVE RStrip(_)
RStrip(s) ==
    IF s # <<>> /\ IsSpace(s[Len(s)]) THEN RStrip(SubSeq(s, 1, Len(s) - 1)) ELSE s

\* str.strip()
Strip(s) == RStrip(LStrip(s))

\* str.split(sep) for a one-character sep: one more piece than sep occurs
RECURSIVE SplitFrom(_, _, _)
SplitFrom(s, sep, cur) ==
    IF s = <<>> THEN <<cur>>
    ELSE IF Head(s) = sep THEN <<cur>> \o SplitFrom(Tail(s), sep, <<>>)
    ELSE SplitFrom(Tail(s), sep, Append(cur, Head(s)))

Split(s, sep) == SplitFrom(s, sep, <<>>)

\* str.startswith
StartsWith(s, p) == Len(s) >= Len(p) /\ SubSeq(s, 1, Len(p)) = p

----------------------------------------------------------------------------
(* The kernel's control-request codes and interface flag bits *)

SIOCGIFFLAGS == 35091
SIOCGIFADDR == 35093
SIOCGIFNETMASK == 35099
SIOCGIFBRDADDR == 35097

IFF_UP == 1
IFF_BROADCAST == 2
IFF_DEBUG == 4
IFF_LOOPBACK == 8
IFF_POINTOPOINT == 16
IFF_NOTRAILERS == 32
IFF_RUNNING == 64
IFF_NOARP == 128
IFF_PROMISC == 256
IFF_ALLMULTI == 512
IFF_MASTER == 1024
IFF_SLAVE == 2048
IFF_MULTICAST == 4096
IFF_PORTSEL == 8192
IFF_AUTOMEDIA == 16384
IFF_DYNAMIC == 32768
IFF_LOWER_UP == 65536
IFF_DORMANT == 131072

----------------------------------------------------------------------------
(* Interface names, flag names and attribute names, as text *)

N_lo == <<"l", "o">>
N_eth0 == <<"e", "t", "h", "0">>
N_eth1 == <<"e", "t", "h", "1">>

F_up == <<"u", "p">>
F_broadcast == <<"b", "r", "o", "a", "d", "c", "a", "s", "t">>
F_debug == <<"d", "e", "b", "u", "g">>
F_loopback == <<"l", "o", "o", "p", "b", "a", "c", "k">>
F_pointopoint == <<"p", "o", "i", "n", "t", "o", "p", "o", "i", "n", "t">>
F_notrailers == <<"n", "o", "t", "r", "a", "i", "l", "e", "r", "s">>
F_running == <<"r", "u", "n", "n", "i", "n", "g">>
F_noarp == <<"n", "o", "a", "r", "p">>
F_promisc == <<"p", "r", "o", "m", "i", "s", "c">>
F_allmulti == <<"a", "l", "l", "m", "u", "l", "t", "i">>
F_master == <<"m", "a", "s", "t", "e", "r">>
F_slave == <<"s", "l", "a", "v", "e">>
F_multicast == <<"m", "u", "l", "t", "i", "c", "a", "s", "t">>
F_portsel == <<"p", "o", "r", "t", "s", "e", "l">>
F_automedia == <<"a", "u", "t", "o", "m", "e", "d", "i", "a">>
F_dynamic == <<"d", "y", "n", "a", "m", "i", "c">>
F_lower_up == <<"l", "o", "w", "e", "r", "_", "u", "p">>
F_dormant == <<"d", "o", "r", "m", "a", "n", "t">>

PREFIX_is == <<"i", "s", "_">>
A_address == <<"a", "d", "d", "r", "e", "s", "s">>
A_addr == <<"a", "d", "d", "r">>
A_netmask == <<"n", "e", "t", "m", "a", "s", "k">>
A_broadcast == <<"b", "r", "o", "a", "d", "c", "a", "s", "t">>
A_mtu == <<"m", "t", "u">>
A_isup == <<"i", "s", "u", "p">>
F_bogus == <<"b", "o", "g", "u", "s">>
F_UP == <<"U", "P">>

\* the names the class statement registers, in its order (lines 73-92)
FlagAttrs ==
    << F_up, F_broadcast, F_debug, F_loopback, F_pointopoint, F_notrailers,
       F_running, F_noarp, F_promisc, F_allmulti, F_master, F_slave,
       F_multicast, F_portsel, F_automedia, F_dynamic, F_lower_up, F_dormant >>

\* globals()["IFF_" + attr.upper()]
IFF(attr) ==
    CASE attr = F_up -> IFF_UP
      [] attr = F_broadcast -> IFF_BROADCAST
      [] attr = F_debug -> IFF_DEBUG
      [] attr = F_loopback -> IFF_LOOPBACK
      [] attr = F_pointopoint -> IFF_POINTOPOINT
      [] attr = F_notrailers -> IFF_NOTRAILERS
      [] attr = F_running -> IFF_RUNNING
      [] attr = F_noarp -> IFF_NOARP
      [] attr = F_promisc -> IFF_PROMISC
      [] attr = F_allmulti -> IFF_ALLMULTI
      [] attr = F_master -> IFF_MASTER
      [] attr = F_slave -> IFF_SLAVE
      [] attr = F_multicast -> IFF_MULTICAST
      [] attr = F_portsel -> IFF_PORTSEL
      [] attr = F_automedia -> IFF_AUTOMEDIA
      [] attr = F_dynamic -> IFF_DYNAMIC
      [] attr = F_lower_up -> IFF_LOWER_UP
      [] attr = F_dormant -> IFF_DORMANT

\* InterfaceInfo.FLAGS with IFF_LOWER_UP mistyped as 0x1000, the bit of multicast
FLAGS_typo ==
    [attr \in Range(FlagAttrs) |-> IF attr = F_lower_up THEN IFF_MULTICAST ELSE IFF(attr)]

\* InterfaceInfo.FLAGS: every registered name with its bit value
FLAGS == [attr \in Range(FlagAttrs) |-> IFF(attr)]

----------------------------------------------------------------------------
(* The device table and get_ifnames *)

\* lines of /proc/net/dev as the kernel writes them: a header, then
\* "<name>: <statistics>" with the name right-aligned
L_hdr == <<"f", "a", "c", "e", " ", "|", "b", "y", "t", "e", "s", "\n">>
L_lo == <<" ", " ", " ", " ", "l", "o", ":", " ", "1", " ", "2", "\n">>
L_eth0 == <<" ", " ", "e", "t", "h", "0", ":", " ", "3", " ", "4", "\n">>
L_eth1 == <<" ", " ", "e", "t", "h", "1", ":", "5", " ", "6", "\n">>
\* a line with a second colon
L_two == <<"e", "t", "h", "0", ":", "1", ":", " ", "7", " ", "8", "\n">>
\* an empty line
L_nl == <<"\n">>

TableLines == {L_hdr, L_lo, L_eth0, L_eth1, L_two, L_nl}

\* an exception's message: the text of the f-string and the values it
\* interpolates
Msg(text, a, b) == [text |-> text, a |-> a, b |-> b]
NoMsg == Msg("", <<>>, <<>>)

\* how a call ends: a kind (a value's type or an exception's class), the
\* value, the message
Ret(kind, bval, sval, msg) == [kind |-> kind, bval |-> bval, sval |-> sval, msg |-> msg]

\* the body of the loop of get_ifnames for one line: the names it appends.
\* "ifname, junk = ..." raises ValueError unless split gives exactly two
\* pieces, and the except clause passes.
IfnamesOfLine(line) ==
    LET parts == Split(Strip(line), ":")
    IN  IF Len(parts) = 2 THEN <<parts[1]>> ELSE <<>>

RECURSIVE get_ifnames(_)
get_ifnames(table) ==
    IF table = <<>> THEN <<>>
    ELSE IfnamesOfLine(Head(table)) \o get_ifnames(Tail(table))

\* InterfaceInfo.__init__ without its membership test
InterfaceInfo_init_unchecked(ifname, table) ==
    Ret("ok", FALSE, <<>>, NoMsg)

\* InterfaceInfo.__init__: the outcome of constructing a handle for ifname
InterfaceInfo_init(ifname, table) ==
    IF ifname \notin Range(get_ifnames(table))
    THEN Ret("NetInfoError", FALSE, <<>>, Msg("no such interface '{a}'", ifname, <<>>))
    ELSE Ret("ok", FALSE, <<>>, NoMsg)

\* self.ifreq: the name followed by NULs, cut to 32 bytes
IfreqLen == 32
NUL == "\\0"
Ifreq(ifname) == SubSeq(ifname \o [i \in 1..IfreqLen |-> NUL], 1, IfreqLen)

\* the kernel's reading of a request buffer: the name up to the first NUL
RECURSIVE CString(_)
CString(buf) ==
    IF buf = <<>> \/ Head(buf) = NUL THEN <<>> ELSE <<Head(buf)>> \o CString(Tail(buf))

\* the devices the kernel has: one per "<name>:" line of its table
KernelDevs(table) ==
    {Strip(Split(table[i], ":")[1]) : i \in {j \in 1..Len(table) : ":" \in Range(table[j])}}

----------------------------------------------------------------------------
(* Control requests: the response buffer and its decoding *)

\* The part of a response the accessors read: offsets 16..23 of the buffer
\* (the union after the 16-byte name), each a byte.
Offsets == 16..23

\* what the kernel writes for SIOCGIFFLAGS: the device's flags cut to a
\* short, in the platform's byte order; the rest of the union is the
\* request's NULs
FlagsResponse(kflags, be) ==
    LET w == kflags % 65536
    IN  [o \in Offsets |->
            IF o = 16 THEN (IF be THEN w \div 256 ELSE w % 256)
            ELSE IF o = 17 THEN (IF be THEN w % 256 ELSE w \div 256)
            ELSE 0]

\* what the kernel writes for an address request: a sockaddr_in, whose
\* address is at offsets 20..23
AddrResponse(ip, be) ==
    [o \in Offsets |->
        IF o = 16 THEN (IF be THEN 0 ELSE 2)
        ELSE IF o = 17 THEN (IF be THEN 2 ELSE 0)
        ELSE IF o >= 20 THEN ip[o - 19]
        ELSE 0]

\* result[a:b]
Slice(result, a, b) == [i \in 1..(b - a) |-> result[a + i - 1]]

\* struct.unpack("H", two bytes)[0]: an unsigned short in native byte order
UnpackH(two, be) == IF be THEN two[1] * 256 + two[2] ELSE two[1] + two[2] * 256

\* x & y on naturals
RECURSIVE BitAnd(_, _)
BitAnd(x, y) ==
    IF x = 0 \/ y = 0 THEN 0
    ELSE (x % 2) * (y % 2) + 2 * BitAnd(x \div 2, y \div 2)

\* _get_ioctl_flag comparing the flags word with the bit instead of masking it
get_ioctl_flag_eq(result, magic, be) ==
    UnpackH(Slice(result, 16, 18), be) = magic

\* _get_ioctl_flag, after its control request returned result
get_ioctl_flag(result, magic, be) ==
    LET flags == UnpackH(Slice(result, 16, 18), be)
    IN  BitAnd(flags, magic) # 0

\* decimal digits of a natural, as text
DigitChars == <<"0", "1", "2", "3", "4", "5", "6", "7", "8", "9">>

RECURSIVE Decimal(_)
Decimal(n) ==
    IF n < 10 THEN <<DigitChars[n + 1]>>
    ELSE Decimal(n \div 10) \o <<DigitChars[(n % 10) + 1]>>

\* socket.inet_ntoa(four bytes)
inet_ntoa(b) ==
    Decimal(b[1]) \o <<".">> \o Decimal(b[2]) \o <<".">> \o Decimal(b[3])
        \o <<".">> \o Decimal(b[4])

\* The outcome of a control request as the handler sees it: ok with the
\* response, or an OSError.
OsFail == [ok |-> FALSE, resp |-> [o \in Offsets |-> 0]]
OsOk(resp) == [ok |-> TRUE, resp |-> resp]

\* _get_ioctl_addr, from the outcome of its control request on
get_ioctl_addr(outcome) ==
    IF ~outcome.ok THEN Ret("none", FALSE, <<>>, NoMsg)
    ELSE Ret("str", FALSE, inet_ntoa(Slice(outcome.resp, 20, 24)), NoMsg)

\* the flag branch of __getattr__ treating OSError as _get_ioctl_addr does
getattr_flag_swallow(attrname, ifname, outcome, be) ==
    IF ~outcome.ok THEN Ret("none", FALSE, <<>>, NoMsg)
    ELSE Ret("bool", get_ioctl_flag(outcome.resp, FLAGS[attrname], be), <<>>, NoMsg)

\* the flag branch of __getattr__ (lines 100-105), from the outcome of the
\* control request on
getattr_flag(attrname, ifname, outcome, be) ==
    IF ~outcome.ok
    THEN Ret("NetInfoError", FALSE, <<>>,
             Msg("could not get {a} flag for {b}", attrname, ifname))
    ELSE Ret("bool", get_ioctl_flag(outcome.resp, FLAGS[attrname], be), <<>>, NoMsg)

----------------------------------------------------------------------------
(* Attribute lookup *)

\* __getattr__ looking the whole name up in FLAGS, its prefix not removed
getattr_route_nostrip(attrname) ==
    IF StartsWith(attrname, PREFIX_is)
    THEN IF attrname \in DOMAIN FLAGS
         THEN [route |-> "flag", name |-> attrname]
         ELSE [route |-> "AttributeError", name |-> attrname]
    ELSE [route |-> "AttributeError", name |-> attrname]

\* __getattr__ (lines 95-107): where a name the class does not define goes
getattr_route(attrname) ==
    IF StartsWith(attrname, PREFIX_is)
    THEN LET a == SubSeq(attrname, 4, Len(attrname))
         IN  IF a \in DOMAIN FLAGS
             THEN [route |-> "flag", name |-> a]
             ELSE [route |-> "AttributeError", name |-> a]
    ELSE [route |-> "AttributeError", name |-> attrname]

\* attribute access on a handle: the class's properties first, then __getattr__
Lookup(attrname) ==
    IF attrname \in {A_address, A_addr} THEN [route |-> "addr", name |-> attrname]
    ELSE IF attrname = A_netmask THEN [route |-> "addr", name |-> attrname]
    ELSE getattr_route(attrname)

\* the request code a call passes to _get_ioctl
Magic(attrname) ==
    IF attrname \in {A_address, A_addr} THEN SIOCGIFADDR
    ELSE IF attrname = A_netmask THEN SIOCGIFNETMASK
    ELSE SIOCGIFFLAGS

----------------------------------------------------------------------------
(* The route dump and get_gateway *)

\* lines of "route -n": its column header, default routes through several
\* devices and a network route
R_hdr == <<"D", "e", "s", "t", "i", "n", "a", "t", "i", "o", "n", " ", "G", "a", "t", "e", "w", "a", "y", " ", "G", "e", "n", "m", "a", "s", "k", " ", "F", "l", "a", "g", "s", " ", "M", "e", "t", "r", "i", "c", " ", "R", "e", "f", " ", "U", "s", "e", " ", "I", "f", "a", "c", "e">>
R_eth0 == <<"0", ".", "0", ".", "0", ".", "0", " ", "1", "0", ".", "0", ".", "0", ".", "1", " ", "0", ".", "0", ".", "0", ".", "0", " ", "U", "G", " ", "0", " ", "0", " ", "0", " ", "e", "t", "h", "0">>
R_eth1 == <<"0", ".", "0", ".", "0", ".", "0", " ", "1", "0", ".", "0", ".", "1", ".", "1", " ", "0", ".", "0", ".", "0", ".", "0", " ", "U", "G", " ", "0", " ", "0", " ", "0", " ", "e", "t", "h", "1">>
R_vlan == <<"0", ".", "0", ".", "0", ".", "0", " ", "1", "0", ".", "0", ".", "2", ".", "1", " ", "0", ".", "0", ".", "0", ".", "0", " ", "U", "G", " ", "0", " ", "0", " ", "0", " ", "e", "t", "h", "0", ".", "1">>
R_veth0 == <<"0", ".", "0", ".", "0", ".", "0", " ", "1", "0", ".", "0", ".", "3", ".", "1", " ", "0", ".", "0", ".", "0", ".", "0", " ", "U", "G", " ", "0", " ", "0", " ", "0", " ", "v", "e", "t", "h", "0">>
R_net == <<"1", "0", ".", "0", ".", "0", ".", "0", " ", "0", ".", "0", ".", "0", ".", "0", " ", "2", "5", "5", ".", "0", ".", "0", ".", "0", " ", "U", " ", "0", " ", "0", " ", "0", " ", "e", "t", "h", "0">>

RouteLines == {R_hdr, R_eth0, R_eth1, R_vlan, R_veth0, R_net}

\* one pattern character against one character of the line: "." matches any
\* character but a newline, every other character of these patterns itself
CharMatch(c, p) == IF p = "." THEN c # "\n" ELSE c = p

\* the pattern text pat matches the line from position s on
PatAt(line, s, pat) ==
    /\ s + Len(pat) - 1 <= Len(line)
    /\ \A i \in 1..Len(pat) : CharMatch(line[s + i - 1], pat[i])

\* line[a..b], not empty, is whitespace: a match of \s+
Spaces(line, a, b) == a <= b /\ \A i \in a..b : IsSpace(line[i])

\* the text of the pattern before its first \s+
RoutePrefix == <<"0", ".", "0", ".", "0", ".", "0">>

\* "\s+(.*)\s+{ifname}" matches from position p: \s+ is line[p..q-1],
\* (.*) is line[q..r-1], \s+ is line[r..s-1] and the name starts at s
RestMatches(line, p, ifname) ==
    \E q \in (p + 1)..(Len(line) + 1) :
        /\ Spaces(line, p, q - 1)
        /\ \E s \in (q + 1)..(Len(line) + 1) :
              /\ PatAt(line, s, ifname)
              /\ \E r \in q..(s - 1) : Spaces(line, r, s - 1)

\* the ways "^0.0.0.0\s+(.*?)\s+(.*)\s+{ifname}" matches the line: <<a, b>>
\* where the first \s+ is line[8..a-1] and group 1 is line[a..b-1]
RouteMatches(line, ifname) ==
    IF ~PatAt(line, 1, RoutePrefix) THEN {}
    ELSE LET ends == 9..(Len(line) + 1)
             as == {a \in ends : Spaces(line, 8, a - 1)}
             bs(a) == {b \in ends : /\ a <= b
                                    /\ \A i \in a..(b - 1) : line[i] # "\n"
                                    /\ RestMatches(line, b, ifname)}
         IN  UNION {{<<a, b>> : b \in bs(a)} : a \in as}

\* re.search(regex, line, re.M): whether it matches, and group(1) of the
\* match the backtracking finds first (the greedy \s+ as long as it can
\* be, then the lazy group as short as it can be)
RouteSearch(line, ifname) ==
    LET ms == RouteMatches(line, ifname)
    IN  IF ms = {} THEN [m |-> FALSE, group1 |-> <<>>]
        ELSE LET a == CHOOSE x \in {ab[1] : ab \in ms} :
                          \A y \in {ab[1] : ab \in ms} : y <= x
                 b == CHOOSE x \in {ab[2] : ab \in {m \in ms : m[1] = a}} :
                          \A y \in {ab[2] : ab \in {m \in ms : m[1] = a}} : x <= y
             IN  [m |-> TRUE, group1 |-> SubSeq(line, a, b - 1)]

\* the loop of get_gateway over route_n.splitlines(): the first match
RECURSIVE FirstRoute(_, _)
FirstRoute(lines, ifname) ==
    IF lines = <<>> THEN [m |-> FALSE, group1 |-> <<>>]
    ELSE LET r == RouteSearch(Head(lines), ifname)
         IN  IF r.m THEN r ELSE FirstRoute(Tail(lines), ifname)

\* How subprocess.run(["route", "-n"], check=True) can end: with the
\* dump's lines, with CalledProcessError (route exits non-zero), or with
\* an OSError (route cannot be executed).
RunOk(lines) == [kind |-> "ok", lines |-> lines]
RunCalledProcessError == [kind |-> "CalledProcessError", lines |-> <<>>]
RunOSError == [kind |-> "OSError", lines |-> <<>>]

\* get_gateway(errors), from the end of the route invocation on
get_gateway(run, ifname, errors) ==
    IF run.kind = "CalledProcessError"
    THEN IF errors
         THEN Ret("NetInfoError", FALSE, <<>>, Msg("{e}", <<>>, <<>>))
         ELSE Ret("none", FALSE, <<>>, NoMsg)
    ELSE IF run.kind = "OSError"
    THEN Ret("OSError", FALSE, <<>>, NoMsg)
    ELSE LET r == FirstRoute(run.lines, ifname)
         IN  IF r.m THEN Ret("str", FALSE, r.group1, NoMsg)
             ELSE IF errors
             THEN Ret("NetInfoError", FALSE, <<>>, Msg("No default route found!", <<>>, <<>>))
             ELSE Ret("none", FALSE, <<>>, NoMsg)

\* the gateway property
gateway(run, ifname) == get_gateway(run, ifname, FALSE)

----------------------------------------------------------------------------
(* The inputs the environment supplies *)

Threads == 1..NThreads

\* names a caller constructs handles for
IfNames == {N_lo, N_eth0, N_eth1}

\* accessor names a caller reads on a handle
IsAttr(suffix) == PREFIX_is \o suffix
FlagQueries == {IsAttr(FlagAttrs[i]) : i \in 1..Len(FlagAttrs)}
OtherAttrs ==
    {A_address, A_addr, A_netmask, A_broadcast, A_mtu, A_isup, F_up,
     IsAttr(F_bogus), IsAttr(F_UP), IsAttr(<<>>), IsAttr(IsAttr(F_up))}
AllAttrs == FlagQueries \cup OtherAttrs
FewAttrs == {A_address, IsAttr(F_up), IsAttr(F_bogus)}

\* flags of a device in the kernel (an unsigned int, of which the request
\* returns the low 16 bits)
KFlagSamples == {0, 1, 72, 4163, 32768, 65535, 65536, 69699, 131072, 262143}

\* addresses a device can have
IpSamples == {<<192, 168, 1, 10>>, <<127, 0, 0, 1>>, <<255, 255, 255, 0>>}

\* every sequence of at most n of the given lines
RECURSIVE SeqsUpTo(_, _)
SeqsUpTo(S, n) ==
    IF n = 0 THEN {<<>>}
    ELSE LET shorter == SeqsUpTo(S, n - 1)
         IN  shorter \cup {Append(q, x) : q \in shorter, x \in S}

RouteDumps == SeqsUpTo(RouteLines, MaxRows)

----------------------------------------------------------------------------
(* State *)

NoCall ==
    [op |-> "none", ifname |-> <<>>, attr |-> <<>>, errors |-> FALSE,
     via |-> "none", kind |-> "pending", bval |-> FALSE, sval |-> <<>>,
     msg |-> NoMsg, names |-> <<>>,
     \* what the call met on its way, kept to state the properties
     ioctls |-> 0, fd |-> 0, os |-> "none", kflags |-> 0, ip |-> <<>>,
     present |-> FALSE, run |-> "none", table |-> <<>>]

WithRet(c, r) ==
    [c EXCEPT !.kind = r.kind, !.bval = r.bval, !.sval = r.sval, !.msg = r.msg]

InitWith(table, dumps, orders) ==
    /\ devtable = table
    /\ routes \in dumps
    /\ bigendian \in orders
    /\ handles = {}
    /\ sockfd = 0
    /\ nsock = 0
    /\ usedfds = {}
    /\ pc = [t \in Threads |-> "idle"]
    /\ call = [t \in Threads |-> NoCall]

Init == InitWith(<<L_hdr>>, {<<>>}, BOOLEAN)

Idle(t) == pc[t] \in {"idle", "done"}

Done(t, c) ==
    /\ pc' = [pc EXCEPT ![t] = "done"]
    /\ call' = [call EXCEPT ![t] = c]

----------------------------------------------------------------------------
(* The environment: devices come and go *)

AddInterface(lines) ==
    /\ Len(devtable) < MaxLines
    /\ \E l \in lines \ Range(devtable) : devtable' = Append(devtable, l)
    /\ UNCHANGED <<handles, sockfd, nsock, usedfds, pc, call, bigendian, routes>>

RemoveInterface ==
    /\ \E i \in 1..Len(devtable) :
          /\ devtable[i] # L_hdr
          /\ devtable' = SubSeq(devtable, 1, i - 1) \o SubSeq(devtable, i + 1, Len(devtable))
    /\ UNCHANGED <<handles, sockfd, nsock, usedfds, pc, call, bigendian, routes>>

----------------------------------------------------------------------------
(* The library's operations *)

\* get_ifnames()
GetIfnames(t) ==
    /\ Idle(t)
    /\ Done(t, [NoCall EXCEPT !.op = "ifnames", !.kind = "list",
                              !.names = get_ifnames(devtable), !.table = devtable])
    /\ UNCHANGED <<devtable, handles, sockfd, nsock, usedfds, bigendian, routes>>

\* InterfaceInfo(ifname)
Construct(t, ifname) ==
    /\ Idle(t)
    /\ LET r == InterfaceInfo_init(ifname, devtable)
       IN  /\ Done(t, WithRet([NoCall EXCEPT !.op = "init", !.ifname = ifname,
                                   !.present = ifname \in Range(get_ifnames(devtable))], r))
           /\ handles' = IF r.kind = "ok" THEN handles \cup {ifname} ELSE handles
    /\ UNCHANGED <<devtable, sockfd, nsock, usedfds, bigendian, routes>>

\* handle.<attrname>: an attribute the class does not resolve to a control
\* request raises AttributeError at once; the others go on to _get_ioctl
Access(t, ifname, attrname) ==
    /\ Idle(t)
    /\ ifname \in handles
    /\ LET r == Lookup(attrname)
           c == [NoCall EXCEPT !.op = "attr", !.ifname = ifname, !.attr = attrname]
       IN  IF r.route = "AttributeError"
           THEN Done(t, WithRet(c, Ret("AttributeError", FALSE, <<>>,
                                       Msg("no such attribute: {a}", r.name, <<>>))))
           ELSE /\ pc' = [pc EXCEPT ![t] = "sock_check"]
                /\ call' = [call EXCEPT ![t] = c]
    /\ UNCHANGED <<devtable, handles, sockfd, nsock, usedfds, bigendian, routes>>

\* the result of the accessor, from the outcome of its control request on
Finish(c, outcome) ==
    LET r == Lookup(c.attr)
    IN  IF r.route = "addr" THEN get_ioctl_addr(outcome)
        ELSE getattr_flag(r.name, c.ifname, outcome, bigendian)

\* _get_sockfd, line 111: the test of cls._sockfd
SockCheck(t) ==
    /\ pc[t] = "sock_check"
    /\ pc' = [pc EXCEPT ![t] = IF sockfd # 0 THEN "sock_ret" ELSE "sock_new"]
    /\ UNCHANGED <<devtable, handles, sockfd, nsock, usedfds, call, bigendian, routes>>

\* _get_sockfd, line 113: socket.socket() and the assignment of its result
SockNew(t) ==
    /\ pc[t] = "sock_new"
    /\ \/ /\ nsock' = nsock + 1
          /\ sockfd' = nsock + 1
          /\ pc' = [pc EXCEPT ![t] = "sock_ret"]
          /\ UNCHANGED call
       \/ /\ Done(t, WithRet([call[t] EXCEPT !.os = "fail"], Finish(call[t], OsFail)))
          /\ UNCHANGED <<nsock, sockfd>>
    /\ UNCHANGED <<devtable, handles, usedfds, bigendian, routes>>

\* _get_sockfd, lines 112 and 114: return cls._sockfd
SockRet(t) ==
    /\ pc[t] = "sock_ret"
    /\ pc' = [pc EXCEPT ![t] = "ioctl"]
    /\ call' = [call EXCEPT ![t].fd = sockfd]
    /\ UNCHANGED <<devtable, handles, sockfd, nsock, usedfds, bigendian, routes>>

\* _get_ioctl: fcntl.ioctl on the descriptor, and the rest of the accessor.
\* The request fails, or (the device being there) returns the device's
\* flags or one of its addresses.
Ioctl(t) ==
    /\ pc[t] = "ioctl"
    /\ usedfds' = usedfds \cup {call[t].fd}
    /\ LET c == [call[t] EXCEPT !.ioctls = 1]
       IN  \/ Done(t, WithRet([c EXCEPT !.os = "fail"], Finish(c, OsFail)))
           \/ /\ CString(Ifreq(c.ifname)) \in KernelDevs(devtable)
              /\ Magic(c.attr) = SIOCGIFFLAGS
              /\ \E k \in KFlagSamples :
                    Done(t, WithRet([c EXCEPT !.os = "ok", !.kflags = k],
                                    Finish(c, OsOk(FlagsResponse(k, bigendian)))))
           \/ /\ CString(Ifreq(c.ifname)) \in KernelDevs(devtable)
              /\ Magic(c.attr) # SIOCGIFFLAGS
              /\ \E ip \in IpSamples :
                    Done(t, WithRet([c EXCEPT !.os = "ok", !.ip = ip],
                                    Finish(c, OsOk(AddrResponse(ip, bigendian)))))
    /\ UNCHANGED <<devtable, handles, sockfd, nsock, bigendian, routes>>

\* the ways the route invocation of a gateway lookup can end now
RunOutcomes == {RunCalledProcessError, RunOSError, RunOk(routes)}

\* handle.get_gateway(errors)
GetGateway(t, ifname, errors) ==
    /\ Idle(t)
    /\ ifname \in handles
    /\ \E run \in RunOutcomes :
          Done(t, WithRet([NoCall EXCEPT !.op = "gateway", !.via = "method",
                               !.ifname = ifname, !.errors = errors,
                               !.run = run.kind],
                          get_gateway(run, ifname, errors)))
    /\ UNCHANGED <<devtable, handles, sockfd, nsock, usedfds, bigendian, routes>>

\* handle.gateway
GatewayProperty(t, ifname) ==
    /\ Idle(t)
    /\ ifname \in handles
    /\ \E run \in RunOutcomes :
          Done(t, WithRet([NoCall EXCEPT !.op = "gateway", !.via = "property",
                               !.ifname = ifname, !.run = run.kind],
                          gateway(run, ifname)))
    /\ UNCHANGED <<devtable, handles, sockfd, nsock, usedfds, bigendian, routes>>

----------------------------------------------------------------------------
(* Specifications *)

\* One caller, every accessor, devices coming and going.
Next ==
    \/ AddInterface({L_lo, L_eth0})
    \/ RemoveInterface
    \/ \E n \in IfNames : Construct(1, n)
    \/ \E n \in IfNames, a \in AllAttrs : Access(1, n, a)
    \/ SockCheck(1)
    \/ SockNew(1)
    \/ SockRet(1)
    \/ Ioctl(1)
    \/ \E n \in IfNames, e \in BOOLEAN : GetGateway(1, n, e)
    \/ \E n \in IfNames : GatewayProperty(1, n)

Spec == Init /\ [][Next]_vars

\* Several threads calling accessors on a fixed device table.
InitConc == InitWith(<<L_hdr, L_lo, L_eth0>>, {<<>>}, {FALSE})

NextConc ==
    \/ \E t \in Threads, n \in {N_lo, N_eth0} : Construct(t, n)
    \/ \E t \in Threads, n \in {N_lo, N_eth0}, a \in FewAttrs : Access(t, n, a)
    \/ \E t \in Threads : SockCheck(t)
    \/ \E t \in Threads : SockNew(t)
    \/ \E t \in Threads : SockRet(t)
    \/ \E t \in Threads : Ioctl(t)

SpecConc == InitConc /\ [][NextConc]_vars

\* Gateway lookups over every route dump.
InitGw == InitWith(<<L_hdr, L_lo, L_eth0, L_eth1>>, RouteDumps, {FALSE})

NextGw ==
    \/ \E n \in {N_eth0, N_eth1} : Construct(1, n)
    \/ \E n \in {N_eth0, N_eth1}, e \in BOOLEAN : GetGateway(1, n, e)
    \/ \E n \in {N_eth0, N_eth1} : GatewayProperty(1, n)

SpecGw == InitGw /\ [][NextGw]_vars

\* Enumeration over every device table.
NextIf ==
    \/ AddInterface(TableLines)
    \/ RemoveInterface
    \/ GetIfnames(1)

InitIf == InitWith(<<L_hdr>>, {<<>>}, {FALSE})

SpecIf == InitIf /\ [][NextIf]_vars

----------------------------------------------------------------------------
(* Properties *)

\* the calls that have returned or raised
Finished == {call[t] : t \in {u \in Threads : pc[u] = "done"}}

NoSuchInterface(c) ==
    c.kind = "NetInfoError" /\ c.msg.text = "no such interface '{a}'"

AttributeError(c) ==
    c.kind = "AttributeError" /\ c.msg.text = "no such attribute: {a}"

\* the flag table of the specification: the i-th name has the bit 2^(i-1)
RECURSIVE Pow2(_)
Pow2(n) == IF n = 0 THEN 1 ELSE 2 * Pow2(n - 1)

SpecBit(i) == Pow2(i - 1)

\* bit (a power of two) is set in the word w
BitSet(w, bit) == (w \div bit) % 2 = 1

\* C1: NoSuchInterface is raised exactly at construction: InterfaceInfo(n)
\* succeeds iff n is in the output of get_ifnames() at that moment, and no
\* accessor or gateway call on a handle raises it afterwards, whatever has
\* become of the device table.
C1_NoSuchInterfaceOnlyAtConstruction ==
    \A c \in Finished :
        /\ c.op = "init" =>
              /\ (c.kind = "ok") <=> c.present
              /\ ~c.present => NoSuchInterface(c)
              /\ c.present => c.ifname \in handles
        /\ c.op # "init" => ~NoSuchInterface(c)

\* C1, its case: an address lookup on a handle whose interface has left
\* the device table failed at the control request and returned none.
C1_Witness ==
    \E c \in Finished :
        /\ c.op = "attr" /\ c.attr = A_address
        /\ c.ifname \in handles
        /\ c.ifname \notin Range(get_ifnames(devtable))
        /\ c.os = "fail" /\ c.ioctls = 1 /\ c.kind = "none"

\* C5: for every registered name n and every flags response, is_<n> is a
\* boolean, true exactly when the bit the table gives n is set in the 16-bit
\* flags word of the response; a word of 0x1 makes only is_up true, a word
\* of 0x48 only is_loopback and is_running.
C5_FlagQueryTestsRegisteredBit ==
    \A c \in Finished : \A i \in 1..Len(FlagAttrs) :
        (c.op = "attr" /\ c.attr = IsAttr(FlagAttrs[i]) /\ c.os = "ok") =>
            LET word == c.kflags % 65536
            IN  /\ c.kind = "bool"
                /\ c.bval <=> BitSet(word, SpecBit(i))
                /\ word = 1 => (c.bval <=> FlagAttrs[i] = F_up)
                /\ word = 72 => (c.bval <=> FlagAttrs[i] \in {F_loopback, F_running})

\* C5, its case: is_loopback answered true on a response of 0x48.
C5_Witness ==
    \E c \in Finished :
        /\ c.op = "attr" /\ c.attr = IsAttr(F_loopback)
        /\ c.os = "ok" /\ c.kflags = 72
        /\ c.kind = "bool" /\ c.bval

\* C6: a flag query whose control request fails raises NetInfoError naming
\* the flag and the handle's interface; it neither returns a value nor
\* raises the unsupported-attribute error.
C6_FlagFailureRaisesNetInfoError ==
    \A c \in Finished : \A i \in 1..Len(FlagAttrs) :
        (c.op = "attr" /\ c.attr = IsAttr(FlagAttrs[i]) /\ c.os = "fail") =>
            /\ c.kind = "NetInfoError"
            /\ c.msg = Msg("could not get {a} flag for {b}", FlagAttrs[i], c.ifname)

\* C6, its case: is_running on eth0 failed at the control request.
C6_Witness ==
    \E c \in Finished :
        /\ c.op = "attr" /\ c.attr = IsAttr(F_running) /\ c.ifname = N_eth0
        /\ c.os = "fail" /\ c.ioctls = 1
        /\ c.kind = "NetInfoError"

\* the suffixes s for which is_<s> is read
Suffixes == Range(FlagAttrs) \cup {F_bogus, F_UP, <<>>, IsAttr(F_up)}

\* C8: is_<s> raises the unsupported-attribute error iff s is not a key of
\* FLAGS; every other name the class does not define raises it too; and an
\* access that raises it issues no control request.
C8_DispatchByRegistry ==
    \A c \in Finished :
        c.op = "attr" =>
            /\ \A s \in Suffixes :
                  c.attr = IsAttr(s) => (AttributeError(c) <=> s \notin Range(FlagAttrs))
            /\ c.attr \in {A_broadcast, A_mtu, A_isup, F_up} => AttributeError(c)
            /\ AttributeError(c) => (c.ioctls = 0 /\ c.fd = 0 /\ c.os = "none")

\* C8, its case: is_bogus raised the unsupported-attribute error.
C8_Witness ==
    \E c \in Finished :
        /\ c.op = "attr" /\ c.attr = IsAttr(F_bogus)
        /\ AttributeError(c) /\ c.msg.a = F_bogus

\* C10: is_lower_up and is_dormant are false for every flags response,
\* whatever the device's flags in the kernel, while each of the other
\* sixteen registered flags is true for some response.
C10_LowerUpAndDormantNeverTrue ==
    /\ \A c \in Finished :
          (c.op = "attr" /\ c.attr \in {IsAttr(F_lower_up), IsAttr(F_dormant)}
              /\ c.os = "ok") => (c.kind = "bool" /\ ~c.bval)
    /\ \A i \in 1..16 : \E k \in KFlagSamples :
          get_ioctl_flag(FlagsResponse(k, bigendian), FLAGS[FlagAttrs[i]], bigendian)

\* C10, its case: is_lower_up answered false for a device whose kernel
\* flags (0x11043) have the LOWER_UP bit.
C10_Witness ==
    \E c \in Finished :
        /\ c.op = "attr" /\ c.attr = IsAttr(F_lower_up)
        /\ c.os = "ok" /\ c.kflags = 69699
        /\ c.kind = "bool" /\ ~c.bval

\* the columns of a line of the route dump: its runs of non-blank characters
RECURSIVE ColumnsFrom(_, _)
ColumnsFrom(line, cur) ==
    IF line = <<>> THEN (IF cur = <<>> THEN <<>> ELSE <<cur>>)
    ELSE IF IsSpace(Head(line))
    THEN (IF cur = <<>> THEN <<>> ELSE <<cur>>) \o ColumnsFrom(Tail(line), <<>>)
    ELSE ColumnsFrom(Tail(line), Append(cur, Head(line)))

Columns(line) == ColumnsFrom(line, <<>>)

\* a row of the dump that is a default route through the device ifname
DefaultRouteOf(line, ifname) ==
    LET cols == Columns(line)
    IN  /\ Len(cols) >= 3
        /\ cols[1] = RoutePrefix
        /\ cols[Len(cols)] = ifname

\* the rows of a dump that are default routes through ifname, by position
DefaultRows(dump, ifname) == {i \in 1..Len(dump) : DefaultRouteOf(dump[i], ifname)}

FirstOf(S) == CHOOSE i \in S : \A j \in S : i <= j

\* C2: get_gateway returns the second column of the first row whose first
\* column is 0.0.0.0 and whose last column equals the handle's interface
\* name, and none (non-strict) when no row is such; a default route through
\* another device is never matched.
C2_GatewayOfFirstMatchingRow ==
    \A c \in Finished :
        (c.op = "gateway" /\ c.run = "ok" /\ ~c.errors) =>
            LET rows == DefaultRows(routes, c.ifname)
            IN  IF rows = {} THEN c.kind = "none"
                ELSE /\ c.kind = "str"
                     /\ c.sval = Columns(routes[FirstOf(rows)])[2]

\* C3: non-strict lookups (and the gateway property) never raise and
\* return none when the route invocation fails, however it fails; strict
\* lookups raise NetInfoError when it fails and when no row matches.
C3_StrictnessDecidesEveryFailure ==
    \A c \in Finished :
        c.op = "gateway" =>
            /\ ~c.errors => c.kind \in {"str", "none"}
            /\ (~c.errors /\ c.run # "ok") => c.kind = "none"
            /\ (c.errors /\ c.run # "ok") => c.kind = "NetInfoError"
            /\ (c.errors /\ c.run = "ok") =>
                  \/ c.kind = "str"
                  \/ /\ c.kind = "NetInfoError"
                     /\ c.msg.text = "No default route found!"

\* C4: socket.socket() creates the shared control socket at most once,
\* and every control request is issued on that one descriptor.
C4_OneSocketPerProcess ==
    /\ nsock <= 1
    /\ Cardinality(usedfds) <= 1

\* C7: address, netmask and broadcast never raise: each is none when its
\* control request fails and the dotted-decimal text of the bytes at
\* offsets 20..23 of the response when it succeeds (192,168,1,10 gives
\* "192.168.1.10").
C7_AddressLookupsNeverRaise ==
    \A c \in Finished :
        (c.op = "attr" /\ c.attr \in {A_address, A_netmask, A_broadcast}) =>
            /\ c.kind \in {"none", "str"}
            /\ c.os = "fail" => c.kind = "none"
            /\ c.os = "ok" => (c.kind = "str" /\ c.sval = inet_ntoa(c.ip))
            /\ (c.os = "ok" /\ c.ip = <<192, 168, 1, 10>>) =>
                  c.sval = <<"1", "9", "2", ".", "1", "6", "8", ".", "1", ".", "1", "0">>

\* the text of a line before its first colon, blanks around it removed
BeforeFirstColon(line) == Strip(Split(line, ":")[1])

RECURSIVE NamesByFirstColon(_)
NamesByFirstColon(table) ==
    IF table = <<>> THEN <<>>
    ELSE (IF ":" \in Range(Head(table)) THEN <<BeforeFirstColon(Head(table))>> ELSE <<>>)
             \o NamesByFirstColon(Tail(table))

\* C9: get_ifnames returns, in table order, one name per line of the table
\* that holds a colon, the text before the line's first colon; only lines
\* without a colon are skipped; the table is read anew on every call.
C9_OneNamePerColonLine ==
    \A c \in Finished :
        c.op = "ifnames" => c.names = NamesByFirstColon(c.table)

====
